---- MODULE Spec2Model ----
(***************************************************************************)
(* Coverage aggregation and classification of vscode-coverage-gutters:     *)
(*   Renderer.filterCoverage / filterLineCoverage / filterBranchCoverage   *)
(*   CoverageParser.filesToSections / addSections / mergeSections          *)
(***************************************************************************)
EXTENDS Integers, Sequences, FiniteSets, TLC

\* ------------------------------------------------------------------ bounds
\* sections handed to one filterCoverage call
MaxSections == 2
\* largest 1-based line number of a detail (0 is the unattributable line)
MaxLine == 2
\* details per section in one pass
MaxDetails == 2
\* sections folded into one map entry by addSections
MaxFold == 3
\* coverage files given to one filesToSections call, files given to one loadDataFiles call
MaxFiles == 3
\* entries of manualCoverageFilePaths
MaxManual == 2
\* workspace folders
MaxFolders == 2
\* visible editors handed to one renderCoverage call
MaxEditors == 2

\* ------------------------------------------------------- optional fields
\* An optional field (lines?, branches?) is <<>> when absent, <<v>> when present.
Absent == <<>>
Present(v) == <<v>>
Has(o) == Len(o) > 0
Get(o) == o[1]

\* the set of elements of a sequence
Range(s) == {s[k] : k \in 1..Len(s)}

\* number of positive elements of a sequence of counters
RECURSIVE CountPos(_)
CountPos(s) == IF s = <<>> THEN 0
               ELSE (IF Head(s) > 0 THEN 1 ELSE 0) + CountPos(Tail(s))

\* --------------------------------------------------------- section model
\* lcov-parse Section: lines.details[{line, hit}], branches.details[{line, block, branch, taken}]
LineDetail(l, h) == [line |-> l, hit |-> h]
BranchDetail(l, bl, br, t) == [line |-> l, block |-> bl, branch |-> br, taken |-> t]

\* {details, hit, found} as a parser fills it: found counts the details, hit those with a positive counter
LinesOf(details) ==
    [details |-> details,
     hit |-> CountPos([k \in 1..Len(details) |-> details[k].hit]),
     found |-> Len(details)]
BranchesOf(details) ==
    [details |-> details,
     hit |-> CountPos([k \in 1..Len(details) |-> details[k].taken]),
     found |-> Len(details)]

Section(title, file, lines, branches) ==
    [title |-> title, file |-> file, lines |-> lines, branches |-> branches]

\* ------------------------------------------------------------ classifier
\* Details the sections handed to filterCoverage can hold: a line may be
\* reported by several details, and line 0 (not a source line) occurs.
ClassifierHits == {0, 1}
ClassifierLineDetails == {LineDetail(l, h) : l \in 0..MaxLine, h \in ClassifierHits}
ClassifierBranchDetails == {BranchDetail(l, 0, 0, t) : l \in 0..MaxLine, t \in ClassifierHits}
\* which of the optional fields the section has
ClassifierShapes == [lines : BOOLEAN, branches : BOOLEAN]

VARIABLES
    coverageSets,    \* CoverageSets {full, partial, none} of renderCoverage
    section,         \* the section the forEach of filterCoverage is at: which fields it has
    pc,              \* position in filterCoverage
    idx,             \* details of the current pass already read
    detail,          \* the detail the inner forEach read last
    nDone,           \* sections completely processed
    secHit,          \* indices the current section reports with hit > 0
    secZero,         \* indices the current section reports with hit = 0
    secUntaken,      \* indices the current section reports with a branch of taken = 0
    reportedHit,     \* indices some processed section reported with hit > 0
    reportedUntaken, \* indices a processed section reported with hit > 0 and an untaken branch
    reportedLine     \* indices line - 1 of the line details with line >= 1 read so far

cvars == <<coverageSets, section, pc, idx, detail, nDone, secHit, secZero, secUntaken,
           reportedHit, reportedUntaken, reportedLine>>

VARIABLES
    coverages,       \* the Map<string, Section> of filesToSections, key -> section
    existing,        \* coverages.get(key) in the last addToSectionsMap call (absent: none)
    incoming,        \* the section of the last addToSectionsMap call
    nAdded,          \* addToSectionsMap calls made
    hist,            \* what the sections added so far reported, per line and per branch
    folded           \* the sections added so far, in the order of the calls (absent where
                     \* the sequence is not followed)

mvars == <<coverages, existing, incoming, nAdded, hist, folded>>

VARIABLES
    fpc,             \* position in filesToSections
    nFiles,          \* entries of files the for loop has visited
    parsePromises,   \* parsePromises: per promise whether it is settled, and its value
    parsing,         \* the parser calls in flight: (index of the promise, parser)
    okData,          \* per promise the sections its parser delivered without an error
    log,             \* systems handleError wrote to the output channel, in order
    flattenedSections, \* results.reduce(concat) after the await of Promise.all
    addIdx,          \* position of data.map(addToSectionsMap)
    contributors,    \* per map key the (title, file) of the sections put under it
    returned,        \* the map filesToSections returned (absent: not yet)
    overtaken        \* "yes" once a parser delivered sections while the parser of an earlier
                     \* file was in flight, "no" before; "untracked" where the order of the
                     \* completions is not followed

fvars == <<fpc, nFiles, parsePromises, parsing, okData, log, flattenedSections, addIdx,
           contributors, returned, overtaken>>

VARIABLES
    loadPromises,    \* loadPromises of loadDataFiles: per file the promise of [file, data]
    loadState,       \* the promise loadDataFiles returned: "idle" before the call, then
                     \* "pending", "fulfilled" or "rejected"
    dataFiles        \* the Map<string, string> loadDataFiles resolved with (absent: none)

lvars == <<loadPromises, loadState, dataFiles>>

VARIABLES
    manualCoverageFilePaths, \* configStore.manualCoverageFilePaths
    disk,            \* the paths for which existsSync is true
    workspaceFolders, \* number of workspace.workspaceFolders
    dpc,             \* position in findCoverageFiles
    nameIdx,         \* entries of fileNames findCoverageInWorkspace has looked for
    files,           \* the Set files of findCoverageInWorkspace
    globCalls,       \* globFind calls made
    warnings,        \* window.showWarningMessage calls, in order
    found            \* the Set findCoverageFiles resolved with (absent: not yet)

dvars == <<manualCoverageFilePaths, disk, workspaceFolders, dpc, nameIdx, files, globCalls,
           warnings, found>>

VARIABLES
    textEditors,     \* number of editors in textEditors
    shownBefore,     \* per editor the decorations it showed when renderCoverage was called
    decorations,     \* per editor and decoration type the ranges the editor shows
    calls,           \* the setDecorations calls made, in order
    editorIdx,       \* editors the forEach has been through
    foundSections,   \* per editor gone through, what findSectionsForEditor returned
    rpc              \* position of renderCoverage

rvars == <<textEditors, shownBefore, decorations, calls, editorIdx, foundSections, rpc>>

vars == <<cvars, mvars, fvars, lvars, dvars, rvars>>

EmptySets == [full |-> {}, partial |-> {}, none |-> {}]
NoShape == [lines |-> FALSE, branches |-> FALSE]
NoDetail == LineDetail(0, 0)
NoSection == Section("", "", Absent, Absent)

\* a filter that lets every line detail through
LineFilterAll(d) == TRUE

\* .filter((detail) => detail.line > 0) of filterLineCoverage
LineFilter(d) == d.line > 0

\* .filter((detail) => detail.taken === 0 && detail.line > 0) of filterBranchCoverage
BranchFilter(d) == d.taken = 0 /\ d.line > 0

\* LineStep without the "only add a none coverage if no full ones exist" guard
LineStepNoGuard(sets, d) ==
    LET line == d.line - 1 IN
    IF d.hit > 0
    THEN [sets EXCEPT !.none = @ \ {line}, !.full = @ \cup {line}]
    ELSE [sets EXCEPT !.none = @ \cup {line}]

\* LineStep that adds a hit line to full without deleting it from none
LineStepKeepNone(sets, d) ==
    LET line == d.line - 1 IN
    IF d.hit > 0
    THEN [sets EXCEPT !.full = @ \cup {line}]
    ELSE IF line \notin sets.full
         THEN [sets EXCEPT !.none = @ \cup {line}]
         ELSE sets

\* body of the forEach in filterLineCoverage
LineStep(sets, d) ==
    LET line == d.line - 1 IN
    IF d.hit > 0
    THEN [sets EXCEPT !.none = @ \ {line}, !.full = @ \cup {line}]
    ELSE IF line \notin sets.full
         THEN [sets EXCEPT !.none = @ \cup {line}]
         ELSE sets

\* body of the forEach in filterBranchCoverage
BranchStep(sets, d) ==
    LET line == d.line - 1 IN
    IF line \in sets.full
    THEN [sets EXCEPT !.full = @ \ {line}, !.partial = @ \cup {line}]
    ELSE sets

\* filterLineCoverage on one detail: filter, then the forEach body
FilterLineDetail(sets, d) == IF LineFilter(d) THEN LineStep(sets, d) ELSE sets

\* filterBranchCoverage on one detail: filter, then the forEach body
FilterBranchDetail(sets, d) == IF BranchFilter(d) THEN BranchStep(sets, d) ELSE sets

\* filterLineCoverage over the details of a section, in order
RECURSIVE FilterLineDetails(_, _)
FilterLineDetails(sets, details) ==
    IF details = <<>> THEN sets
    ELSE FilterLineDetails(FilterLineDetail(sets, Head(details)), Tail(details))

\* filterBranchCoverage over the details of a section, in order
RECURSIVE FilterBranchDetails(_, _)
FilterBranchDetails(sets, details) ==
    IF details = <<>> THEN sets
    ELSE FilterBranchDetails(FilterBranchDetail(sets, Head(details)), Tail(details))

\* filterLineCoverage(section, coverageSets): nothing when the section has no lines
FilterLineCoverage(s, sets) ==
    IF ~Has(s.lines) THEN sets ELSE FilterLineDetails(sets, Get(s.lines).details)

\* filterBranchCoverage(section, coverageSets): nothing when the section has no branches
FilterBranchCoverage(s, sets) ==
    IF ~Has(s.branches) THEN sets ELSE FilterBranchDetails(sets, Get(s.branches).details)

\* filterCoverage(sections, coverageSets): per section the line pass, then the branch pass
RECURSIVE FilterCoverage(_, _)
FilterCoverage(sections, sets) ==
    IF sections = <<>> THEN sets
    ELSE FilterCoverage(Tail(sections),
                        FilterBranchCoverage(Head(sections),
                                             FilterLineCoverage(Head(sections), sets)))

ClassifierIdle ==
    /\ coverageSets = EmptySets
    /\ section = NoShape
    /\ pc = "next"
    /\ idx = 0
    /\ detail = NoDetail
    /\ nDone = 0
    /\ secHit = {}
    /\ secZero = {}
    /\ secUntaken = {}
    /\ reportedHit = {}
    /\ reportedUntaken = {}
    /\ reportedLine = {}

\* sections.forEach of filterCoverage: take the next section
NextSection ==
    /\ pc = "next"
    /\ nDone < MaxSections
    /\ \E s \in ClassifierShapes : section' = s
    /\ pc' = "lines"
    /\ idx' = 0
    /\ secHit' = {}
    /\ secZero' = {}
    /\ secUntaken' = {}
    /\ UNCHANGED <<coverageSets, detail, nDone, reportedHit, reportedUntaken, reportedLine>>
    /\ UNCHANGED <<mvars, fvars, lvars, dvars, rvars>>

\* filterLineCoverage: the next line detail of the section
FilterLineRead ==
    /\ pc = "lines"
    /\ section.lines
    /\ idx < MaxDetails
    /\ \E d \in ClassifierLineDetails :
        /\ detail' = d
        /\ coverageSets' = FilterLineDetail(coverageSets, d)
        /\ secHit' = IF d.line > 0 /\ d.hit > 0 THEN secHit \cup {d.line - 1} ELSE secHit
        /\ secZero' = IF d.line > 0 /\ d.hit = 0 THEN secZero \cup {d.line - 1} ELSE secZero
        /\ reportedLine' = IF d.line > 0 THEN reportedLine \cup {d.line - 1} ELSE reportedLine
    /\ idx' = idx + 1
    /\ UNCHANGED <<section, pc, nDone, secUntaken, reportedHit, reportedUntaken>>
    /\ UNCHANGED <<mvars, fvars, lvars, dvars, rvars>>

\* filterLineCoverage returns: at once when lines is missing, else after the last detail
FilterLineEnd ==
    /\ pc = "lines"
    /\ pc' = "branches"
    /\ idx' = 0
    /\ UNCHANGED <<coverageSets, section, detail, nDone, secHit, secZero, secUntaken,
                   reportedHit, reportedUntaken, reportedLine>>
    /\ UNCHANGED <<mvars, fvars, lvars, dvars, rvars>>

\* filterBranchCoverage: the next branch detail of the section
FilterBranchRead ==
    /\ pc = "branches"
    /\ section.branches
    /\ idx < MaxDetails
    /\ \E d \in ClassifierBranchDetails :
        /\ detail' = d
        /\ coverageSets' = FilterBranchDetail(coverageSets, d)
        /\ secUntaken' = IF d.line > 0 /\ d.taken = 0 THEN secUntaken \cup {d.line - 1}
                         ELSE secUntaken
    /\ idx' = idx + 1
    /\ UNCHANGED <<section, pc, nDone, secHit, secZero, reportedHit, reportedUntaken, reportedLine>>
    /\ UNCHANGED <<mvars, fvars, lvars, dvars, rvars>>

\* filterBranchCoverage returns: at once when branches is missing, else after the last detail
FilterBranchEnd ==
    /\ pc = "branches"
    /\ pc' = "next"
    /\ idx' = 0
    /\ nDone' = nDone + 1
    /\ reportedHit' = reportedHit \cup secHit
    /\ reportedUntaken' = reportedUntaken \cup (secHit \cap secUntaken)
    /\ UNCHANGED <<coverageSets, section, detail, secHit, secZero, secUntaken, reportedLine>>
    /\ UNCHANGED <<mvars, fvars, lvars, dvars, rvars>>


\* ---------------------------------------------------------------- merger
\* const key = [section.title, section.file].join("::")
Key(s) == s.title \o "::" \o s.file

\* getKey of mergeBranchCoverage: [line, block, branch].join(":"); the join of
\* three integers is one-to-one, so the key is kept as the triple
GetKey(b) == <<b.line, b.block, b.branch>>

\* mergeLineCoverage that adds the incoming counter instead of one
MergeLineCoverageSum(existingCoverage, coverage) ==
    LET old == Get(existingCoverage.lines).details
        new == Get(coverage.lines).details
        add(l) == IF \E k \in 1..Len(new) : new[k].line = l
                  THEN new[CHOOSE k \in 1..Len(new) : new[k].line = l].hit ELSE 0
        seen == {old[k].line : k \in 1..Len(old)}
        mapped == [k \in 1..Len(old) |-> [old[k] EXCEPT !.hit = @ + add(old[k].line)]]
        details == mapped \o SelectSeq(new, LAMBDA d : d.line \notin seen)
    IN  [details |-> details,
         hit |-> CountPos([k \in 1..Len(details) |-> details[k].hit]),
         found |-> Len(details)]

\* mergeLineCoverage that counts every incoming report of a line, hit or not
MergeLineCoverageAnyReport(existingCoverage, coverage) ==
    LET old == Get(existingCoverage.lines).details
        new == Get(coverage.lines).details
        reported == {d.line : d \in Range(new)}
        seen == {old[k].line : k \in 1..Len(old)}
        mapped == [k \in 1..Len(old) |->
                      IF old[k].line \in reported THEN [old[k] EXCEPT !.hit = @ + 1] ELSE old[k]]
        details == mapped \o SelectSeq(new, LAMBDA d : d.line \notin seen)
    IN  [details |-> details,
         hit |-> CountPos([k \in 1..Len(details) |-> details[k].hit]),
         found |-> Len(details)]

\* mergeLineCoverage that appends every incoming detail, seen or not
MergeLineCoverageNoSeen(existingCoverage, coverage) ==
    LET old == Get(existingCoverage.lines).details
        new == Get(coverage.lines).details
        hits == {d.line : d \in {e \in Range(new) : e.hit > 0}}
        mapped == [k \in 1..Len(old) |->
                      IF old[k].line \in hits THEN [old[k] EXCEPT !.hit = @ + 1] ELSE old[k]]
        details == mapped \o new
    IN  [details |-> details,
         hit |-> CountPos([k \in 1..Len(details) |-> details[k].hit]),
         found |-> Len(details)]

\* mergeLineCoverage that counts the covered lines of existing before line.hit += 1
MergeLineCoverageHitBefore(existingCoverage, coverage) ==
    LET old == Get(existingCoverage.lines).details
        new == Get(coverage.lines).details
        hits == {d.line : d \in {e \in Range(new) : e.hit > 0}}
        seen == {old[k].line : k \in 1..Len(old)}
        mapped == [k \in 1..Len(old) |->
                      IF old[k].line \in hits THEN [old[k] EXCEPT !.hit = @ + 1] ELSE old[k]]
        appended == SelectSeq(new, LAMBDA d : d.line \notin seen)
    IN  [details |-> mapped \o appended,
         hit |-> CountPos([k \in 1..Len(old) |-> old[k].hit])
                 + CountPos([k \in 1..Len(appended) |-> appended[k].hit]),
         found |-> Len(mapped) + Len(appended)]

\* mergeLineCoverage(existingCoverage, coverage): {details, hit, found}
MergeLineCoverage(existingCoverage, coverage) ==
    LET old == Get(existingCoverage.lines).details
        new == Get(coverage.lines).details
        \* new Set(coverage.lines.details.filter(hit > 0).map(line))
        hits == {d.line : d \in {e \in Range(new) : e.hit > 0}}
        \* existingCoverage.lines.details.map(...): seen.add, line.hit += 1
        seen == {old[k].line : k \in 1..Len(old)}
        mapped == [k \in 1..Len(old) |->
                      IF old[k].line \in hits THEN [old[k] EXCEPT !.hit = @ + 1] ELSE old[k]]
        \* coverage.lines.details.filter(!seen.has(line)): details.push(line)
        appended == SelectSeq(new, LAMBDA d : d.line \notin seen)
    IN  [details |-> mapped \o appended,
         hit |-> CountPos([k \in 1..Len(mapped) |-> mapped[k].hit])
                 + CountPos([k \in 1..Len(appended) |-> appended[k].hit]),
         found |-> Len(mapped) + Len(appended)]

\* mergeBranchCoverage that takes the incoming branches whenever one side has none
MergeBranchCoverageReplace(existingCoverage, coverage) ==
    IF ~Has(coverage.branches) \/ ~Has(existingCoverage.branches)
    THEN coverage.branches
    ELSE existingCoverage.branches

\* mergeBranchCoverage that sums hit and found of the two inputs
MergeBranchCoverageSummed(existingCoverage, coverage) ==
    IF ~Has(coverage.branches) THEN existingCoverage.branches
    ELSE IF ~Has(existingCoverage.branches) THEN coverage.branches
    ELSE
    LET old == Get(existingCoverage.branches).details
        new == Get(coverage.branches).details
        taken == {GetKey(d) : d \in {e \in Range(new) : e.taken > 0}}
        seen == {GetKey(old[k]) : k \in 1..Len(old)}
        mapped == [k \in 1..Len(old) |->
                      IF GetKey(old[k]) \in taken THEN [old[k] EXCEPT !.taken = @ + 1]
                      ELSE old[k]]
        appended == SelectSeq(new, LAMBDA d : GetKey(d) \notin seen)
    IN  Present([details |-> mapped \o appended,
                 hit |-> Get(existingCoverage.branches).hit + Get(coverage.branches).hit,
                 found |-> Get(existingCoverage.branches).found + Get(coverage.branches).found])

\* mergeBranchCoverage(existingCoverage, coverage): the optional {details, hit, found}
MergeBranchCoverage(existingCoverage, coverage) ==
    IF ~Has(coverage.branches) THEN existingCoverage.branches
    ELSE IF ~Has(existingCoverage.branches) THEN coverage.branches
    ELSE
    LET old == Get(existingCoverage.branches).details
        new == Get(coverage.branches).details
        taken == {GetKey(d) : d \in {e \in Range(new) : e.taken > 0}}
        seen == {GetKey(old[k]) : k \in 1..Len(old)}
        mapped == [k \in 1..Len(old) |->
                      IF GetKey(old[k]) \in taken THEN [old[k] EXCEPT !.taken = @ + 1]
                      ELSE old[k]]
        appended == SelectSeq(new, LAMBDA d : GetKey(d) \notin seen)
    IN  Present([details |-> mapped \o appended,
                 hit |-> CountPos([k \in 1..Len(mapped) |-> mapped[k].taken])
                         + CountPos([k \in 1..Len(appended) |-> appended[k].taken]),
                 found |-> Len(mapped) + Len(appended)])

\* mergeSections: {...existingSection, lines, branches}
MergeSections(existingSection, s) ==
    [existingSection EXCEPT
        !.lines = Present(MergeLineCoverage(existingSection, s)),
        !.branches = MergeBranchCoverage(existingSection, s)]

\* addToSectionsMap of addSections: insert under a new key, else merge into the entry
AddToSectionsMap(cov, s) ==
    IF Key(s) \notin DOMAIN cov
    THEN cov @@ (Key(s) :> s)
    ELSE [cov EXCEPT ![Key(s)] = MergeSections(@, s)]

\* new Map<string, Section>()
EmptyMap == <<>>

\* Sections of one identity as a parser produces them: every line number and
\* every branch key at most once per section, counters 0, 1 or 2.
\* mergeSections computes the merged lines from the two sections' lines alone
\* and the merged branches from their branches alone, so the sections vary
\* either the line details (without branch data) or the branch details (with
\* one line detail): every pair of line details and every pair of
\* optional branch details meets in a merge.
MergeLineNumbers == {1, 2}
MergeBranchKeys == {<<1, 0, 0>>, <<1, 0, 1>>}
MergeHits == {0, 1, 2}
\* sequences without repetition over the set K
RECURSIVE Arrangements(_)
Arrangements(K) ==
    {<<>>} \cup UNION {{<<k>> \o r : r \in Arrangements(K \ {k})} : k \in K}
MergeLineOptions ==
    UNION {{[i \in 1..Len(a) |-> LineDetail(a[i], h[i])] : h \in [1..Len(a) -> MergeHits]}
           : a \in Arrangements(MergeLineNumbers)}
MergeBranchOptions ==
    UNION {{[i \in 1..Len(a) |-> BranchDetail(a[i][1], a[i][2], a[i][3], h[i])]
              : h \in [1..Len(a) -> MergeHits]}
           : a \in Arrangements(MergeBranchKeys)}
MergeSectionSet ==
    {Section("a", "c", Present(LinesOf(l)), Absent) : l \in MergeLineOptions}
    \cup {Section("a", "c", Present(LinesOf(l)), Present(BranchesOf(d))) :
            l \in {<<LineDetail(1, 1)>>}, d \in MergeBranchOptions}

\* the history of what was reported, before any section
NoHist ==
    [lineSeen |-> {},
     lineRuns |-> [l \in MergeLineNumbers |-> 0],
     lineFirst |-> [l \in MergeLineNumbers |-> 0],
     lineLater |-> [l \in MergeLineNumbers |-> 0],
     brSeen |-> {},
     brRuns |-> [k \in MergeBranchKeys |-> 0],
     brFirst |-> [k \in MergeBranchKeys |-> 0],
     brLater |-> [k \in MergeBranchKeys |-> 0]]

\* counter with which section s reports line l / branch key k (-1: not reported)
LineHitIn(s, l) ==
    LET d == Get(s.lines).details
    IN  IF \E i \in 1..Len(d) : d[i].line = l
        THEN d[CHOOSE i \in 1..Len(d) : d[i].line = l].hit ELSE -1
BranchTakenIn(s, k) ==
    IF ~Has(s.branches) THEN -1
    ELSE LET d == Get(s.branches).details
         IN  IF \E i \in 1..Len(d) : GetKey(d[i]) = k
             THEN d[CHOOSE i \in 1..Len(d) : GetKey(d[i]) = k].taken ELSE -1

\* the history after section s was added: runs counts the sections reporting a
\* positive counter, first is the counter of the first section reporting the
\* line (branch), later counts the sections after it reporting a positive counter
HistAdd(h, s) ==
    [lineSeen |-> h.lineSeen \cup {l \in MergeLineNumbers : LineHitIn(s, l) >= 0},
     lineRuns |-> [l \in MergeLineNumbers |->
                     h.lineRuns[l] + (IF LineHitIn(s, l) > 0 THEN 1 ELSE 0)],
     lineFirst |-> [l \in MergeLineNumbers |->
                     IF l \notin h.lineSeen /\ LineHitIn(s, l) >= 0
                     THEN LineHitIn(s, l) ELSE h.lineFirst[l]],
     lineLater |-> [l \in MergeLineNumbers |->
                     h.lineLater[l] + (IF l \in h.lineSeen /\ LineHitIn(s, l) > 0 THEN 1 ELSE 0)],
     brSeen |-> h.brSeen \cup {k \in MergeBranchKeys : BranchTakenIn(s, k) >= 0},
     brRuns |-> [k \in MergeBranchKeys |->
                     h.brRuns[k] + (IF BranchTakenIn(s, k) > 0 THEN 1 ELSE 0)],
     brFirst |-> [k \in MergeBranchKeys |->
                     IF k \notin h.brSeen /\ BranchTakenIn(s, k) >= 0
                     THEN BranchTakenIn(s, k) ELSE h.brFirst[k]],
     brLater |-> [k \in MergeBranchKeys |->
                     h.brLater[k] + (IF k \in h.brSeen /\ BranchTakenIn(s, k) > 0 THEN 1 ELSE 0)]]

\* the sequence of the sections added, after section s was added
Following(before, s) ==
    IF Has(before) THEN Present(Append(Get(before), s)) ELSE before

MergeReady ==
    /\ coverages = EmptyMap
    /\ existing = Absent
    /\ incoming = NoSection
    /\ nAdded = 0
    /\ hist = NoHist

MergeIdle == MergeReady /\ folded = Absent


\* addSections: data.map(addToSectionsMap) reaches the next section of one identity
AddSection ==
    /\ nAdded < MaxFold
    /\ \E s \in MergeSectionSet :
        /\ incoming' = s
        /\ existing' = IF Key(s) \in DOMAIN coverages THEN Present(coverages[Key(s)]) ELSE Absent
        /\ coverages' = AddToSectionsMap(coverages, s)
        /\ hist' = HistAdd(hist, s)
        /\ folded' = Following(folded, s)
    /\ nAdded' = nAdded + 1
    /\ UNCHANGED <<cvars, fvars, lvars, dvars, rvars>>


\* ---------------------------------------------------------- filesToSections
\* CoverageType of coveragefile: the four parsers, and no recognised format
CallbackTypes == {"jacoco", "cobertura", "lcov"}
CoverageTypes == {"clover"} \cup CallbackTypes \cup {"none"}
\* the system name handleError is given
System(type) == type \o "-parse"

\* Sections a parser delivers: two identities that share the key "a::b::c"
\* (with different counters, so the order of a merge shows) and a third one.
FileSectionSet ==
    {Section("a::b", "c", Present(LinesOf(<<LineDetail(1, 2)>>)), Absent),
     Section("a", "b::c", Present(LinesOf(<<LineDetail(1, 1)>>)), Absent),
     Section("a", "c", Present(LinesOf(<<LineDetail(2, 1)>>)), Absent)}
\* the Section[] of one file: at most two sections
FileData == {<<>>} \cup {<<s>> : s \in FileSectionSet}
            \cup {<<s, u>> : s \in FileSectionSet, u \in FileSectionSet}

\* the data a parser passes along with an error: nothing, or what it had parsed
\* (checkError has resolved with [] before resolve(data) is reached)
ErrorData == {<<>>, <<Section("a", "c", Present(LinesOf(<<LineDetail(2, 1)>>)), Absent)>>}
\* the data argument of the callback, with and without an error
CallbackData(err) == IF err THEN ErrorData ELSE FileData

\* new Promise<Section[]>(...) before resolve is called
Pending == [settled |-> FALSE, value |-> <<>>]

\* resolve(v): the first call settles the promise, later calls do nothing
Resolve(p, v) == IF p.settled THEN p ELSE [p EXCEPT !.settled = TRUE, !.value = v]

\* checkError that logs but leaves the promise to the resolve(data) that follows
CheckErrorNoResolve(p, err) == p

\* checkError of xmlExtractCobertura / xmlExtractJacoco / lcovExtract: if (err) { ...; return resolve([]) }
CheckError(p, err) == IF err THEN Resolve(p, <<>>) ELSE p

\* the parser's callback: async (err, data) => { checkError(err); return resolve(data); }
ParserCallback(p, err, data) == Resolve(CheckError(p, err), data)

\* catch (error) { checkError(error) } around the parser call
ParserThrow(p) == CheckError(p, TRUE)

\* xmlExtractClover: data of the awaited parser, [] from the catch
CloverResult(p, err, data) == Resolve(p, IF err THEN <<>> ELSE data)

\* the reduce that puts each later result in front of the earlier ones
RECURSIVE FlattenReversed(_)
FlattenReversed(results) ==
    IF results = <<>> THEN <<>> ELSE FlattenReversed(Tail(results)) \o Head(results)

\* results.reduce((acc, val) => acc.concat(val), [])
RECURSIVE Flatten(_)
Flatten(results) == IF results = <<>> THEN <<>> ELSE Head(results) \o Flatten(Tail(results))

\* the map after data.map(addToSectionsMap) over data, from the map cov
RECURSIVE AddSections(_, _)
AddSections(cov, data) ==
    IF data = <<>> THEN cov ELSE AddSections(AddToSectionsMap(cov, Head(data)), Tail(data))

\* the order of completions as recorded after the parser call has called back
Overtaking(before, call, err, data) ==
    IF before = "no" /\ ~err /\ data # <<>> /\ \E other \in parsing : other[1] < call[1]
    THEN "yes" ELSE before

FilesReady ==
    /\ fpc = "loop"
    /\ nFiles = 0
    /\ parsePromises = <<>>
    /\ parsing = {}
    /\ okData = <<>>
    /\ log = <<>>
    /\ flattenedSections = <<>>
    /\ addIdx = 1
    /\ contributors = EmptyMap
    /\ returned = Absent

FilesIdle == FilesReady /\ overtaken = "untracked"

\* before loadDataFiles, findCoverageFiles, renderCoverage are called
LoadIdle ==
    /\ loadPromises = <<>>
    /\ loadState = "idle"
    /\ dataFiles = Absent

FindIdle ==
    /\ manualCoverageFilePaths = <<>>
    /\ disk = {}
    /\ workspaceFolders = 0
    /\ dpc = "idle"
    /\ nameIdx = 0
    /\ files = {}
    /\ globCalls = 0
    /\ warnings = <<>>
    /\ found = Absent

RenderIdle ==
    /\ textEditors = 0
    /\ shownBefore = <<>>
    /\ decorations = <<>>
    /\ calls = <<>>
    /\ editorIdx = 0
    /\ foundSections = <<>>
    /\ rpc = "forEach"

\* for (const [fileName, fileContent] of files): a file of a callback parser;
\* the parser may throw at once, which the catch turns into resolve([])
ParseCallbackFile ==
    /\ fpc = "loop"
    /\ nFiles < MaxFiles
    /\ \E type \in CallbackTypes, throws \in BOOLEAN :
        /\ parsePromises' = Append(parsePromises,
                                   IF throws THEN ParserThrow(Pending) ELSE Pending)
        /\ parsing' = IF throws THEN parsing
                      ELSE parsing \cup {<<Len(parsePromises) + 1, type>>}
        /\ log' = IF throws THEN Append(log, System(type)) ELSE log
    /\ okData' = Append(okData, <<>>)
    /\ nFiles' = nFiles + 1
    /\ UNCHANGED <<flattenedSections, addIdx, contributors, returned, overtaken, fpc>>
    /\ UNCHANGED <<cvars, mvars, lvars, dvars, rvars>>

\* case CoverageType.CLOVER: the async xmlExtractClover is started
ParseCloverFile ==
    /\ fpc = "loop"
    /\ nFiles < MaxFiles
    /\ parsePromises' = Append(parsePromises, Pending)
    /\ parsing' = parsing \cup {<<Len(parsePromises) + 1, "clover">>}
    /\ okData' = Append(okData, <<>>)
    /\ nFiles' = nFiles + 1
    /\ UNCHANGED <<log, flattenedSections, addIdx, contributors, returned, overtaken, fpc>>
    /\ UNCHANGED <<cvars, mvars, lvars, dvars, rvars>>

\* default: a file of no recognised format starts no parser
SkipFile ==
    /\ fpc = "loop"
    /\ nFiles < MaxFiles
    /\ nFiles' = nFiles + 1
    /\ UNCHANGED <<parsePromises, parsing, okData, log, flattenedSections, addIdx,
                   contributors, returned, overtaken, fpc>>
    /\ UNCHANGED <<cvars, mvars, lvars, dvars, rvars>>

\* the for loop is through: await Promise.all(parsePromises)
AwaitAll ==
    /\ fpc = "loop"
    /\ fpc' = "await"
    /\ UNCHANGED <<nFiles, parsePromises, parsing, okData, log, flattenedSections, addIdx,
                   contributors, returned, overtaken>>
    /\ UNCHANGED <<cvars, mvars, lvars, dvars, rvars>>

\* a callback parser calls back with (err, data); data comes with an error too
CallbackCompletes ==
    /\ \E call \in parsing, err \in BOOLEAN : \E data \in CallbackData(err) :
        /\ call[2] \in CallbackTypes
        /\ parsing' = parsing \ {call}
        /\ parsePromises' = [parsePromises EXCEPT ![call[1]] = ParserCallback(@, err, data)]
        /\ okData' = [okData EXCEPT ![call[1]] = IF err THEN <<>> ELSE data]
        /\ log' = IF err THEN Append(log, System(call[2])) ELSE log
        /\ overtaken' = Overtaking(overtaken, call, err, data)
    /\ UNCHANGED <<fpc, nFiles, flattenedSections, addIdx, contributors, returned>>
    /\ UNCHANGED <<cvars, mvars, lvars, dvars, rvars>>

\* parseContentClover resolves with data or rejects
CloverCompletes ==
    /\ \E call \in parsing, err \in BOOLEAN : \E data \in CallbackData(err) :
        /\ call[2] = "clover"
        /\ parsing' = parsing \ {call}
        /\ parsePromises' = [parsePromises EXCEPT ![call[1]] = CloverResult(@, err, data)]
        /\ okData' = [okData EXCEPT ![call[1]] = IF err THEN <<>> ELSE data]
        /\ log' = IF err THEN Append(log, System(call[2])) ELSE log
        /\ overtaken' = Overtaking(overtaken, call, err, data)
    /\ UNCHANGED <<fpc, nFiles, flattenedSections, addIdx, contributors, returned>>
    /\ UNCHANGED <<cvars, mvars, lvars, dvars, rvars>>

\* a join that does not wait: it takes what the promises hold when the loop is through
JoinResultsEarly ==
    /\ fpc = "await"
    /\ flattenedSections' = Flatten([i \in 1..Len(parsePromises) |-> parsePromises[i].value])
    /\ addIdx' = 1
    /\ fpc' = "adding"
    /\ UNCHANGED <<nFiles, parsePromises, parsing, okData, log, contributors, returned, overtaken>>
    /\ UNCHANGED <<cvars, mvars, lvars, dvars, rvars>>

\* Promise.all resolves once every promise is settled: results in promise order, flattened
JoinResults ==
    /\ fpc = "await"
    /\ \A i \in 1..Len(parsePromises) : parsePromises[i].settled
    /\ flattenedSections' = Flatten([i \in 1..Len(parsePromises) |-> parsePromises[i].value])
    /\ addIdx' = 1
    /\ fpc' = "adding"
    /\ UNCHANGED <<nFiles, parsePromises, parsing, okData, log, contributors, returned, overtaken>>
    /\ UNCHANGED <<cvars, mvars, lvars, dvars, rvars>>

\* addSections: data.map(addToSectionsMap) at the next section
AddFileSection ==
    /\ fpc = "adding"
    /\ addIdx <= Len(flattenedSections)
    /\ LET s == flattenedSections[addIdx] IN
        /\ incoming' = s
        /\ existing' = IF Key(s) \in DOMAIN coverages THEN Present(coverages[Key(s)]) ELSE Absent
        /\ coverages' = AddToSectionsMap(coverages, s)
        /\ contributors' =
            [k \in DOMAIN coverages \cup {Key(s)} |->
                (IF k \in DOMAIN contributors THEN contributors[k] ELSE {})
                \cup (IF k = Key(s) THEN {<<s.title, s.file>>} ELSE {})]
    /\ addIdx' = addIdx + 1
    /\ nAdded' = nAdded + 1
    /\ UNCHANGED <<fpc, nFiles, parsePromises, parsing, okData, log, flattenedSections,
                   returned, overtaken, hist, folded>>
    /\ UNCHANGED <<cvars, lvars, dvars, rvars>>

\* await Promise.all(addPromises); return coverages
ReturnCoverages ==
    /\ fpc = "adding"
    /\ addIdx > Len(flattenedSections)
    /\ returned' = Present(coverages)
    /\ fpc' = "done"
    /\ UNCHANGED <<nFiles, parsePromises, parsing, okData, log, flattenedSections, addIdx,
                   contributors, overtaken>>
    /\ UNCHANGED <<cvars, mvars, lvars, dvars, rvars>>

InitFiles == ClassifierIdle /\ MergeIdle /\ FilesIdle /\ LoadIdle /\ FindIdle /\ RenderIdle

NextFiles ==
    \/ ParseCallbackFile
    \/ ParseCloverFile
    \/ SkipFile
    \/ AwaitAll
    \/ CallbackCompletes
    \/ CloverCompletes
    \/ JoinResults
    \/ AddFileSection
    \/ ReturnCoverages

SpecFiles == InitFiles /\ [][NextFiles]_vars

\* filesToSections with the order of the parsers' completions followed
InitOrder ==
    /\ ClassifierIdle /\ MergeIdle /\ LoadIdle /\ FindIdle /\ RenderIdle
    /\ FilesReady
    /\ overtaken = "no"

SpecOrder == InitOrder /\ [][NextFiles]_vars

\* ------------------------------------------------------------ loadDataFiles
\* what readFile(path, 'utf-8') delivers for a coverage file
FileContents == {"", "TN:", "<coverage>"}

\* the promise of the async map callback before readFile settles
PendingRead == [state |-> "pending", value |-> <<>>]

\* async (file) => { const data = await this.load(file); return [file, data] }:
\* load awaits readFile without a catch, so a failed read rejects the promise
Load(file, ok, data) ==
    IF ok THEN [state |-> "fulfilled", value |-> <<file, data>>]
    ELSE [state |-> "rejected", value |-> <<file>>]

\* Promise.all(loadPromises): rejected as soon as one promise is, fulfilled when all are
PromiseAll(promises) ==
    IF \E i \in 1..Len(promises) : promises[i].state = "rejected" THEN "rejected"
    ELSE IF \A i \in 1..Len(promises) : promises[i].state = "fulfilled" THEN "fulfilled"
    ELSE "pending"

\* new Map(results): file -> data
NewMap(results) ==
    [f \in {results[i][1] : i \in 1..Len(results)} |->
        results[CHOOSE i \in 1..Len(results) :
                    /\ results[i][1] = f
                    /\ \A j \in 1..Len(results) : results[j][1] = f => j <= i][2]]

\* loadDataFiles(files): one load per file of the set, all started at once
LoadDataFiles ==
    /\ loadState = "idle"
    /\ \E n \in 0..MaxFiles : loadPromises' = [i \in 1..n |-> PendingRead]
    /\ loadState' = "pending"
    /\ UNCHANGED dataFiles
    /\ UNCHANGED <<cvars, mvars, fvars, dvars, rvars>>

\* readFile settles for one file; a rejection goes through load, the map callback,
\* Promise.all and the await of loadDataFiles, none of which catches it
ReadFile ==
    /\ loadState \in {"pending", "rejected"}
    /\ \E i \in 1..Len(loadPromises), ok \in BOOLEAN, data \in FileContents :
        /\ loadPromises[i].state = "pending"
        /\ ~ok => data = ""
        /\ loadPromises' = [loadPromises EXCEPT ![i] = Load(i, ok, data)]
        /\ loadState' = IF PromiseAll(loadPromises') = "rejected" THEN "rejected" ELSE loadState
    /\ UNCHANGED dataFiles
    /\ UNCHANGED <<cvars, mvars, fvars, dvars, rvars>>

\* const results = await Promise.all(loadPromises); return new Map(results)
LoadReturn ==
    /\ loadState = "pending"
    /\ PromiseAll(loadPromises) = "fulfilled"
    /\ dataFiles' = Present(NewMap([i \in 1..Len(loadPromises) |-> loadPromises[i].value]))
    /\ loadState' = "fulfilled"
    /\ UNCHANGED loadPromises
    /\ UNCHANGED <<cvars, mvars, fvars, dvars, rvars>>

InitLoad == ClassifierIdle /\ MergeIdle /\ FilesIdle /\ LoadIdle /\ FindIdle /\ RenderIdle

NextLoad ==
    \/ LoadDataFiles
    \/ ReadFile
    \/ LoadReturn

SpecLoad == InitLoad /\ [][NextLoad]_vars

\* --------------------------------------------------------- findCoverageFiles
\* absolute paths a developer may list in manualCoverageFilePaths
ManualPaths == {"/m/lcov.info", "/m/cov.xml", "/m/jacoco.xml"}
\* configStore.coverageFileNames
CoverageFileNames == <<"lcov.info", "cov.xml">>
\* paths a glob in a workspace folder may deliver
WorkspacePaths == {"/w/lcov.info", "/w/cov.xml"}
\* the lists manualCoverageFilePaths may hold, a path twice too
ManualLists == UNION {[1..n -> ManualPaths] : n \in 0..MaxManual}

\* an existingFiles filter that keeps every listed path
ExistingFilesAll(paths, onDisk) == paths

\* manualCoverageFilePaths.filter((file) => existsSync(file))
ExistingFiles(paths, onDisk) == SelectSeq(paths, LAMBDA file : file \in onDisk)

\* the warning for a listed path that does not exist
MissingWarning(file) == "manualCoverageFilePaths contains \"" \o file \o "\" which does not exist!"

\* the showWarningMessage calls of the filter callback, in list order
RECURSIVE MissingWarnings(_, _)
MissingWarnings(paths, onDisk) ==
    IF paths = <<>> THEN <<>>
    ELSE (IF Head(paths) \in onDisk THEN <<>> ELSE <<MissingWarning(Head(paths))>>)
         \o MissingWarnings(Tail(paths), onDisk)

\* fileNames.join(", ")
RECURSIVE Join(_)
Join(names) ==
    IF names = <<>> THEN ""
    ELSE IF Len(names) = 1 THEN names[1]
    ELSE names[1] \o ", " \o Join(Tail(names))

\* the warning of a search that found nothing
NotFoundWarning == "Could not find a Coverage file! Searched for " \o Join(CoverageFileNames)

\* the warning of the catch in globFind
GlobWarning == "An error occured while looking for the coverage file"

\* what one globFind call comes to: a set of paths, or the glob throws
GlobOutcomes ==
    {[threw |-> FALSE, files |-> f] : f \in SUBSET WorkspacePaths}
    \cup {[threw |-> TRUE, files |-> {}]}

\* globFind: new Set(files), new Set() when nothing matched or the glob threw
GlobFind(outcome) == IF outcome.threw THEN {} ELSE outcome.files

\* findCoverageFiles with a non-empty manualCoverageFilePaths
FindManual ==
    /\ dpc = "idle"
    /\ Len(manualCoverageFilePaths) > 0
    /\ warnings' = warnings \o MissingWarnings(manualCoverageFilePaths, disk)
    /\ found' = Present(Range(ExistingFiles(manualCoverageFilePaths, disk)))
    /\ dpc' = "done"
    /\ UNCHANGED <<manualCoverageFilePaths, disk, workspaceFolders, nameIdx, files, globCalls>>
    /\ UNCHANGED <<cvars, mvars, fvars, lvars, rvars>>

\* findCoverageFiles with an empty list: findCoverageInWorkspace(fileNames) is called
FindInWorkspace ==
    /\ dpc = "idle"
    /\ Len(manualCoverageFilePaths) = 0
    /\ dpc' = "search"
    /\ nameIdx' = 0
    /\ files' = {}
    /\ UNCHANGED <<manualCoverageFilePaths, disk, workspaceFolders, globCalls, warnings, found>>
    /\ UNCHANGED <<cvars, mvars, fvars, lvars, rvars>>

\* for (const fileName of fileNames): findCoverageForFileName globs every
\* workspace folder and the results are added to files
FindCoverageForFileName ==
    /\ dpc = "search"
    /\ nameIdx < Len(CoverageFileNames)
    /\ \E outcome \in [1..workspaceFolders -> GlobOutcomes] :
        /\ files' = files \cup UNION {GlobFind(outcome[w]) : w \in 1..workspaceFolders}
        /\ warnings' = warnings \o
                [k \in 1..Cardinality({w \in 1..workspaceFolders : outcome[w].threw})
                    |-> GlobWarning]
    /\ globCalls' = globCalls + workspaceFolders
    /\ nameIdx' = nameIdx + 1
    /\ UNCHANGED <<manualCoverageFilePaths, disk, workspaceFolders, dpc, found>>
    /\ UNCHANGED <<cvars, mvars, fvars, lvars, rvars>>

\* if (!files.size) { showWarningMessage(...); return new Set() } return files
SearchReturn ==
    /\ dpc = "search"
    /\ nameIdx = Len(CoverageFileNames)
    /\ warnings' = IF files = {} THEN Append(warnings, NotFoundWarning) ELSE warnings
    /\ found' = Present(files)
    /\ dpc' = "done"
    /\ UNCHANGED <<manualCoverageFilePaths, disk, workspaceFolders, nameIdx, files, globCalls>>
    /\ UNCHANGED <<cvars, mvars, fvars, lvars, rvars>>

\* the configuration and the file system findCoverageFiles is called with
InitFind ==
    /\ ClassifierIdle /\ MergeIdle /\ FilesIdle /\ LoadIdle /\ RenderIdle
    /\ manualCoverageFilePaths \in ManualLists
    /\ disk \in SUBSET ManualPaths
    /\ workspaceFolders \in 0..MaxFolders
    /\ dpc = "idle"
    /\ nameIdx = 0
    /\ files = {}
    /\ globCalls = 0
    /\ warnings = <<>>
    /\ found = Absent

NextFind ==
    \/ FindManual
    \/ FindInWorkspace
    \/ FindCoverageForFileName
    \/ SearchReturn

SpecFind == InitFind /\ [][NextFind]_vars

\* ------------------------------------------------------------ renderCoverage
\* the decoration types, in the order removeDecorationsForEditor and
\* setDecorationsForEditor call setDecorations
DecorationTypes == <<"full", "none", "partial">>

\* new Range(line, 0, line, 0)
RangeOf(line) == [start |-> <<line, 0>>, end |-> <<line, 0>>]

\* setsToRanges: one range per line of the set (the order of the array, the
\* set's insertion order, has no effect on what the editor shows)
SetsToRanges(lines) == {RangeOf(line) : line \in lines}

\* an editor without decorations
NoDecorations == [full |-> {}, none |-> {}, partial |-> {}]

\* what an editor may show when renderCoverage is called: nothing, or the
\* decorations of an earlier render
StaleDecorations ==
    {NoDecorations,
     [full |-> {RangeOf(4)}, none |-> {RangeOf(5)}, partial |-> {RangeOf(6)}]}

\* sections findSectionsForEditor can find for an editor
RenderSectionSet ==
    {Section("t", "a.ts",
             Present(LinesOf(<<LineDetail(1, 1), LineDetail(2, 0)>>)),
             Present(BranchesOf(<<BranchDetail(1, 0, 0, 0)>>))),
     Section("u", "a.ts", Present(LinesOf(<<LineDetail(1, 1), LineDetail(3, 1)>>)), Absent),
     Section("v", "a.ts", Absent, Present(BranchesOf(<<BranchDetail(2, 0, 0, 0)>>)))}
\* the Section[] findSectionsForEditor returns: none, one or two sections
RenderFound == {<<>>} \cup {<<s>> : s \in RenderSectionSet}
               \cup {<<s, u>> : s \in RenderSectionSet, u \in RenderSectionSet}

\* editor.setDecorations(type, ranges), made by removeDecorationsForEditor
\* ("remove") or by setDecorationsForEditor ("set")
SetDecorationsCall(editor, type, ranges, by) ==
    [editor |-> editor, type |-> type, ranges |-> ranges, by |-> by]

\* removeDecorationsForEditor that leaves the editor as it is
RemoveNothing(editor) == <<>>

\* removeDecorationsForEditor: the three types are set to []
RemoveDecorationsForEditor(editor) ==
    [k \in 1..3 |-> SetDecorationsCall(editor, DecorationTypes[k], {}, "remove")]

\* setDecorationsForEditor: the three types are set to the ranges of coverage
SetDecorationsForEditor(editor, coverage) ==
    [k \in 1..3 |-> SetDecorationsCall(editor, DecorationTypes[k], coverage[DecorationTypes[k]], "set")]

\* coverageLines of renderCoverage
CoverageLines(sets) ==
    [full |-> SetsToRanges(sets.full),
     none |-> SetsToRanges(sets.none),
     partial |-> SetsToRanges(sets.partial)]

\* a forEach callback that sets the new decorations before it removes the old
RenderEditorSetFirst(editor, sections) ==
    (IF sections = <<>> THEN <<>>
     ELSE SetDecorationsForEditor(editor, CoverageLines(FilterCoverage(sections, EmptySets))))
    \o RemoveDecorationsForEditor(editor)

\* the forEach callback of renderCoverage for one editor, as the setDecorations
\* calls it makes: remove, fresh sets, return when no section was found, else
\* filterCoverage, setsToRanges, set
RenderEditor(editor, sections) ==
    RemoveDecorationsForEditor(editor)
    \o (IF sections = <<>> THEN <<>>
        ELSE SetDecorationsForEditor(editor, CoverageLines(FilterCoverage(sections, EmptySets))))

\* what the editors show after the setDecorations calls cs
RECURSIVE Show(_, _)
Show(dec, cs) ==
    IF cs = <<>> THEN dec
    ELSE Show([dec EXCEPT ![Head(cs).editor][Head(cs).type] = Head(cs).ranges], Tail(cs))

\* textEditors.forEach: the callback for the next editor
RenderNextEditor ==
    /\ rpc = "forEach"
    /\ editorIdx < textEditors
    /\ \E sections \in RenderFound :
        /\ foundSections' = Append(foundSections, sections)
        /\ calls' = calls \o RenderEditor(editorIdx + 1, sections)
        /\ decorations' = Show(decorations, RenderEditor(editorIdx + 1, sections))
    /\ editorIdx' = editorIdx + 1
    /\ UNCHANGED <<textEditors, shownBefore, rpc>>
    /\ UNCHANGED <<cvars, mvars, fvars, lvars, dvars>>

\* the forEach is through all editors: renderCoverage returns
RenderReturn ==
    /\ rpc = "forEach"
    /\ editorIdx = textEditors
    /\ rpc' = "returned"
    /\ UNCHANGED <<textEditors, shownBefore, decorations, calls, editorIdx, foundSections>>
    /\ UNCHANGED <<cvars, mvars, fvars, lvars, dvars>>

\* renderCoverage is called with one to MaxEditors visible editors, each
\* showing nothing or the decorations of an earlier render
InitRender ==
    /\ ClassifierIdle /\ MergeIdle /\ FilesIdle /\ LoadIdle /\ FindIdle
    /\ textEditors \in 1..MaxEditors
    /\ shownBefore \in [1..textEditors -> StaleDecorations]
    /\ decorations = shownBefore
    /\ calls = <<>>
    /\ editorIdx = 0
    /\ foundSections = <<>>
    /\ rpc = "forEach"

NextRender ==
    \/ RenderNextEditor
    \/ RenderReturn

SpecRender == InitRender /\ [][NextRender]_vars

\* -------------------------------------------------------- specifications
InitMerge == ClassifierIdle /\ MergeIdle /\ FilesIdle /\ LoadIdle /\ FindIdle /\ RenderIdle

NextMerge == AddSection

SpecMerge == InitMerge /\ [][NextMerge]_vars

\* addSections with the sequence of the sections it was given kept
InitFold ==
    /\ ClassifierIdle /\ FilesIdle /\ LoadIdle /\ FindIdle /\ RenderIdle
    /\ MergeReady
    /\ folded = Present(<<>>)

SpecFold == InitFold /\ [][NextMerge]_vars

InitClassify == ClassifierIdle /\ MergeIdle /\ FilesIdle /\ LoadIdle /\ FindIdle /\ RenderIdle

NextClassify ==
    \/ NextSection
    \/ FilterLineRead
    \/ FilterLineEnd
    \/ FilterBranchRead
    \/ FilterBranchEnd

SpecClassify == InitClassify /\ [][NextClassify]_vars

\* ------------------------------------------------- claims: the classifier
Disjoint(sets) ==
    /\ sets.full \cap sets.partial = {}
    /\ sets.full \cap sets.none = {}
    /\ sets.partial \cap sets.none = {}

\* C1: whenever filterCoverage has processed a whole number of sections, starting
\* from three empty sets, full, partial and none are pairwise disjoint.
C1_Disjoint == pc = "next" => Disjoint(coverageSets)

\* C2: every index some processed section reported with hit > 0 ends in full or
\* partial and is not in none.
C2_HitNeverNone ==
    pc = "next" =>
        \A i \in reportedHit :
            /\ i \in coverageSets.full \cup coverageSets.partial
            /\ i \notin coverageSets.none

\* C3: every index a processed section reported with hit > 0 and with a branch of
\* taken = 0 on the same line ends in partial and not in full.
C3_BranchDowngrade ==
    pc = "next" =>
        \A i \in reportedUntaken :
            /\ i \in coverageSets.partial
            /\ i \notin coverageSets.full

\* what C4 says one section classifies to, from the section's details on source lines
SingleSectionSets ==
    [full |-> secHit \ secUntaken,
     partial |-> secHit \cap secUntaken,
     none |-> secZero \ secHit]

\* C4: classifying a single section gives full = hit lines without an untaken
\* branch, partial = hit lines with an untaken branch, none = lines whose every
\* detail has hit = 0; classifying no section gives three empty sets.
C4_SingleSection ==
    /\ (pc = "next" /\ nDone = 0) => coverageSets = EmptySets
    /\ (pc = "next" /\ nDone = 1) => coverageSets = SingleSectionSets

\* C4 witness: the section lines [{1, hit>0}, {2, hit 0}], branch {line 1, taken 0}
\* has been classified to full = {}, partial = {0}, none = {1}.
C4_Witness ==
    /\ pc = "next" /\ nDone = 1
    /\ secHit = {0} /\ secZero = {1} /\ secUntaken = {0}
    /\ coverageSets = [full |-> {}, partial |-> {0}, none |-> {1}]

\* C16: an index the branch pass moved from full to partial is never added to
\* full again by a later line pass, of the same or of a later section.
C16_NoReturnToFull ==
    [][\A i \in coverageSets.partial :
          i \notin coverageSets.full => i \notin coverageSets'.full]_vars

\* the step just taken read a line detail / a branch detail
LineDetailStep == pc = "lines" /\ idx' = idx + 1
BranchDetailStep == pc = "branches" /\ idx' = idx + 1

\* C17: in every state, also between two details, no index is in both none and
\* full; a line detail with hit = 0 adds nothing to none that is in full.
C17_NoneNeverFull ==
    /\ [](coverageSets.none \cap coverageSets.full = {})
    /\ [][(LineDetailStep /\ detail'.hit = 0) =>
            (coverageSets'.none \ coverageSets.none) \cap coverageSets.full = {}]_vars

\* C17 witness: a detail with hit = 0 was read for line 1 while index 0 was in
\* full, and index 0 is in full and not in none.
C17_Witness ==
    /\ pc = "lines" /\ idx > 0
    /\ detail = LineDetail(1, 0)
    /\ secHit = {}
    /\ 0 \in coverageSets.full
    /\ 0 \notin coverageSets.none

\* C18: a detail with line <= 0 changes no set; a section without lines
\* (branches) passes the line (branch) pass with the sets unchanged; every index
\* in a set is >= 0 and is line - 1 of a line detail with line >= 1 read before.
C18_IgnoredInput ==
    /\ [](\A i \in coverageSets.full \cup coverageSets.partial \cup coverageSets.none :
            i >= 0 /\ i \in reportedLine)
    /\ [][((LineDetailStep \/ BranchDetailStep) /\ detail'.line <= 0) =>
            coverageSets' = coverageSets]_vars
    /\ [][(pc = "lines" /\ ~section.lines) =>
            (pc' = "branches" /\ coverageSets' = coverageSets)]_vars
    /\ [][(pc = "branches" /\ ~section.branches) =>
            (pc' = "next" /\ nDone' = nDone + 1 /\ coverageSets' = coverageSets)]_vars

\* C18 witness: the second section, without lines, has read a branch detail on
\* line 0 and the sets are what the first section left: full = {0}, none = {1}.
C18_Witness ==
    /\ nDone = 1
    /\ pc = "branches" /\ idx > 0
    /\ ~section.lines /\ section.branches
    /\ detail.line = 0
    /\ reportedLine = {0, 1}
    /\ coverageSets = [full |-> {0}, partial |-> {}, none |-> {1}]

\* --------------------------------------------------- claims: the merger
\* the merged line / branch details of a map entry
EntryLines(e) == Get(e.lines).details
EntryBranches(e) == IF Has(e.branches) THEN Get(e.branches).details ELSE <<>>
\* the entry the last addToSectionsMap call wrote
Merged == coverages[Key(incoming)]

C6_LineMergeStep ==
    Has(existing) =>
        LET old == EntryLines(Get(existing))
            new == EntryLines(incoming)
            out == EntryLines(Merged)
            oldLines == {old[i].line : i \in 1..Len(old)}
            rest == SubSeq(out, Len(old) + 1, Len(out))
        IN  /\ Len(out) >= Len(old)
            /\ \A i \in 1..Len(old) :
                /\ out[i].line = old[i].line
                /\ out[i].hit = old[i].hit + (IF LineHitIn(incoming, old[i].line) > 0 THEN 1 ELSE 0)
            /\ Range(rest) = {d \in Range(new) : d.line \notin oldLines}
            /\ Len(rest) = Cardinality({d \in Range(new) : d.line \notin oldLines})

\* C6 witness: incoming reports a line of existing with hit 2 and the counter
\* grew from 2 to 3, and a line only incoming reports was appended.
C6_Witness ==
    /\ Has(existing)
    /\ Len(EntryLines(Merged)) > Len(EntryLines(Get(existing)))
    /\ \E i \in 1..Len(EntryLines(Get(existing))) :
        /\ EntryLines(Get(existing))[i].hit = 2
        /\ LineHitIn(incoming, EntryLines(Get(existing))[i].line) = 2
        /\ EntryLines(Merged)[i].hit = 3

\* C7 as stated: each merged line counter is the number of contributing sections
\* that reported the line with hit > 0, each merged branch counter the number
\* that reported the branch with taken > 0.
C7_RunCounts ==
    \A k \in DOMAIN coverages :
        /\ \A d \in Range(EntryLines(coverages[k])) : d.hit = hist.lineRuns[d.line]
        /\ \A b \in Range(EntryBranches(coverages[k])) : b.taken = hist.brRuns[GetKey(b)]

\* C7 amended: each merged counter is the raw counter of the first contributing
\* section that reported the line (branch) plus the number of later contributing
\* sections that reported it with a positive counter.
C7_FirstPlusLater ==
    \A k \in DOMAIN coverages :
        /\ \A d \in Range(EntryLines(coverages[k])) :
            d.hit = hist.lineFirst[d.line] + hist.lineLater[d.line]
        /\ \A b \in Range(EntryBranches(coverages[k])) :
            b.taken = hist.brFirst[GetKey(b)] + hist.brLater[GetKey(b)]

\* C7 witness: three sections reported a line with hit > 0, the first with hit 2:
\* the merged counter is 4, neither the 3 runs nor the sum of the raw counters.
C7_Witness ==
    /\ nAdded = 3
    /\ \E d \in Range(EntryLines(Merged)) :
        /\ hist.lineFirst[d.line] = 2
        /\ hist.lineRuns[d.line] = 3
        /\ LineHitIn(incoming, d.line) = 2
        /\ d.hit = 4

\* C9: in one merge step, incoming without branch data leaves the entry's branch
\* data as it was; incoming with branch data meeting an entry without any becomes
\* the entry's branch data.
C9_BranchFrame ==
    Has(existing) =>
        /\ ~Has(incoming.branches) => Merged.branches = Get(existing).branches
        /\ (~Has(Get(existing).branches) /\ Has(incoming.branches)) =>
                Merged.branches = incoming.branches

\* C9 witness: an entry that adopted branch data earlier meets an incoming
\* section without branch data and keeps its (non-empty) branch details.
C9_Witness ==
    /\ Has(existing)
    /\ nAdded = 3
    /\ Has(Get(existing).branches)
    /\ Len(EntryBranches(Get(existing))) = 2
    /\ ~Has(incoming.branches)
    /\ Merged.branches = Get(existing).branches

Permuted(data, p) == [i \in 1..Len(data) |-> data[p[i]]]
\* line number -> counter of a sequence of line details (one detail per line)
CounterOf(details) == {<<d.line, d.hit>> : d \in Range(details)}

C8_KeyIdentity ==
    /\ \A k \in DOMAIN coverages :
        /\ k = Key(coverages[k])
        /\ \A c \in contributors[k] : c = <<coverages[k].title, coverages[k].file>>
    /\ \A k1 \in DOMAIN contributors, k2 \in DOMAIN contributors :
        contributors[k1] \cap contributors[k2] # {} => k1 = k2
    /\ Has(existing) =>
        /\ Merged.title = Get(existing).title
        /\ Merged.file = Get(existing).file

\* C10: the map filesToSections returns is the map of the sections the parsers
\* delivered without an error, in file order: a file whose parser fails or whose
\* format is not recognised adds no entry and no merge.
C10_FailedFilesAddNothing ==
    fpc = "done" => Get(returned) = AddSections(EmptyMap, Flatten(okData))

\* C10 witness: of three files two parsers failed and were logged, and
\* filesToSections returned the non-empty map of the third file's sections.
C10_Witness ==
    /\ fpc = "done"
    /\ Len(parsePromises) = 3
    /\ Len(log) = 2
    /\ DOMAIN Get(returned) # {}
    /\ \E i \in 1..3 : okData[i] # <<>> /\ \A j \in (1..3) \ {i} : parsePromises[j].value = <<>>

\* C12: no section is inserted or merged while a parser started by the call is
\* still in flight, and the map is returned only when every section every
\* parser resolved with has been merged into it.
C12_MergeAfterAllParses ==
    /\ parsing # {} => (fpc \in {"loop", "await"} /\ coverages = EmptyMap /\ ~Has(returned))
    /\ fpc \in {"adding", "done"} => \A i \in 1..Len(parsePromises) : parsePromises[i].settled
    /\ Has(returned) =>
        /\ addIdx = Len(flattenedSections) + 1
        /\ Len(flattenedSections) = Len(Flatten(okData))
        /\ Get(returned) = coverages

\* C12 witness: three parsers delivered sections and the map was returned after
\* all of them were merged.
C12_Witness ==
    /\ fpc = "done"
    /\ Len(parsePromises) = 3
    /\ \A i \in 1..3 : okData[i] # <<>>
    /\ nAdded >= 3
    /\ Has(returned)

\* the left fold of addToSectionsMap over the files' sections, file by file
RECURSIVE FoldFiles(_, _)
FoldFiles(cov, perFile) ==
    IF perFile = <<>> THEN cov ELSE FoldFiles(AddSections(cov, Head(perFile)), Tail(perFile))

\* C13: while addSections runs the map is the left fold over the sections passed
\* so far, and the returned map is the left fold over the sections in file order,
\* within a file in parser-result order, whatever order the parsers completed in.
C13_SequentialFold ==
    /\ fpc = "adding" =>
        coverages = AddSections(EmptyMap, SubSeq(flattenedSections, 1, addIdx - 1))
    /\ fpc = "done" =>
        Get(returned) = FoldFiles(EmptyMap,
                                  [i \in 1..Len(parsePromises) |-> parsePromises[i].value])

\* C13 witness: the second file's parser completed before the first file's, both
\* delivered a section of key "a::b::c", and the entry is the first file's section
\* with its counter 2 grown by one (the other order gives counter 2 of 1 + 1).
C13_Witness ==
    /\ fpc = "done"
    /\ overtaken = "yes"
    /\ Len(parsePromises) = 2
    /\ okData[1] = <<Section("a::b", "c", Present(LinesOf(<<LineDetail(1, 2)>>)), Absent)>>
    /\ okData[2] = <<Section("a", "b::c", Present(LinesOf(<<LineDetail(1, 1)>>)), Absent)>>
    /\ Get(returned)["a::b::c"].title = "a::b"
    /\ EntryLines(Get(returned)["a::b::c"])[1].hit = 3

\* ------------------------------------------------ claims: loadDataFiles
\* C11: whatever the reads of the single files do, the pipeline does not fail:
\* the promise of loadDataFiles is never rejected to its caller.
C11_NoFailurePropagates == loadState # "rejected"

\* -------------------------------------------- claims: findCoverageFiles
\* C15: with a non-empty manualCoverageFilePaths no workspace search is made, and
\* findCoverageFiles returns exactly the listed paths that exist, with one
\* warning per listed path that does not; with an empty list it returns what the
\* search found, with the not-found warning exactly when that is nothing.
C15_ManualOrSearch ==
    LET listed == 1..Len(manualCoverageFilePaths)
        missing == {i \in listed : manualCoverageFilePaths[i] \notin disk}
    IN  /\ Len(manualCoverageFilePaths) > 0 => (dpc # "search" /\ nameIdx = 0 /\ globCalls = 0)
        /\ (dpc = "done" /\ Len(manualCoverageFilePaths) > 0) =>
            /\ Get(found) = {manualCoverageFilePaths[i] : i \in listed \ missing}
            /\ Len(warnings) = Cardinality(missing)
            /\ \A i \in missing : MissingWarning(manualCoverageFilePaths[i]) \in Range(warnings)
        /\ (dpc = "done" /\ Len(manualCoverageFilePaths) = 0) =>
            /\ nameIdx = Len(CoverageFileNames)
            /\ Get(found) = files
            /\ NotFoundWarning \in Range(warnings) <=> files = {}

\* C15 witness: two different paths are listed, neither exists, there are
\* workspace folders to search: the result is empty, with two warnings and no glob.
C15_Witness ==
    /\ dpc = "done"
    /\ Len(manualCoverageFilePaths) = 2
    /\ manualCoverageFilePaths[1] # manualCoverageFilePaths[2]
    /\ Range(manualCoverageFilePaths) \cap disk = {}
    /\ disk # {}
    /\ workspaceFolders > 0
    /\ Get(found) = {}
    /\ Len(warnings) = 2
    /\ globCalls = 0

\* ----------------------------------------------- claims: renderCoverage
\* C14: when renderCoverage has returned, every editor shows on each decoration
\* type exactly the ranges of the classification of the sections found for it,
\* computed from empty sets, whatever it showed before; nothing on all three
\* types when no section was found for it.
C14_FreshDecorations ==
    rpc = "returned" =>
        \A e \in 1..textEditors :
            decorations[e] =
                IF foundSections[e] = <<>> THEN NoDecorations
                ELSE CoverageLines(FilterCoverage(foundSections[e], EmptySets))

\* C14 witness: two editors showed stale decorations; no section was found for
\* the first, which shows nothing now; one section was found for the second,
\* which shows its classification partial = {0}, none = {1}.
C14_Witness ==
    /\ rpc = "returned"
    /\ textEditors = 2
    /\ \A e \in 1..2 : shownBefore[e] # NoDecorations
    /\ foundSections[1] = <<>>
    /\ decorations[1] = NoDecorations
    /\ Len(foundSections[2]) = 1
    /\ decorations[2] = [full |-> {}, none |-> {RangeOf(1)}, partial |-> {RangeOf(0)}]

\* the setDecorations calls made for editor e, in order
CallsFor(e) == SelectSeq(calls, LAMBDA c : c.editor = e)

\* C20: the calls for one editor precede every call for the next editor; for each
\* editor the three removing calls come first, on full, none, partial; the three
\* setting calls, if any, follow together, no call for another editor between.
C20_CallOrder ==
    /\ \A i \in 1..Len(calls), j \in 1..Len(calls) :
            i < j => calls[i].editor <= calls[j].editor
    /\ \A i \in 1..Len(calls), j \in 1..Len(calls) :
            (calls[i].editor = calls[j].editor /\ calls[i].by = "set" /\ calls[j].by = "remove")
                => j < i
    /\ \A e \in 1..editorIdx :
            /\ Len(CallsFor(e)) = IF foundSections[e] = <<>> THEN 3 ELSE 6
            /\ \A k \in 1..3 :
                /\ CallsFor(e)[k].by = "remove"
                /\ CallsFor(e)[k].type = DecorationTypes[k]
                /\ CallsFor(e)[k].ranges = {}
            /\ \A k \in 4..Len(CallsFor(e)) :
                /\ CallsFor(e)[k].by = "set"
                /\ CallsFor(e)[k].type = DecorationTypes[k - 3]
    /\ \A c \in Range(calls) : c.editor \in 1..editorIdx

\* C20 witness: sections were found for both of two editors: twelve calls, the
\* first editor's three removes and three sets, then the second editor's.
C20_Witness ==
    /\ editorIdx = 2
    /\ Len(calls) = 12
    /\ calls[4].editor = 1 /\ calls[4].by = "set"
    /\ calls[6].editor = 1 /\ calls[6].by = "set" /\ calls[6].ranges # {}
    /\ calls[7].editor = 2 /\ calls[7].by = "remove"
    /\ calls[10].editor = 2 /\ calls[10].by = "set"

====
